---- MODULE Spec2Model ----
(***************************************************************************)
(* Verification model of the eBay seller summarizer:                       *)
(*   server/src/scrapers/SellerScraper.ts  (SellerScraper)                 *)
(*   server/src/sellerRater.ts             (rateSeller)                    *)
(*   server/src/util/dates.ts              (getTimeSince, getTimeInfo)     *)
(*                                                                         *)
(* JavaScript numbers are modelled as exact fractions <<n, d>> in lowest   *)
(* terms with d >= 0; d = 0 encodes the non-finite values: <<0, 0>> is NaN,*)
(* <<1, 0>> is Infinity and <<-1, 0>> is -Infinity.  IEEE rounding and the *)
(* sign of zero are not modelled.  Page texts are sequences of one-        *)
(* character strings, so that slice, split, trim, startsWith, Number and   *)
(* parseFloat are computed rather than assumed.                            *)
(***************************************************************************)
EXTENDS Integers, Sequences, FiniteSets, TLC

VARIABLES
    pc,                 \* position of scrapeSellerData / of the rateSeller call
    sellerStats,        \* SellerScraper.sellerStats
    soldItemsText,      \* getSoldItems: the title attribute read from the page
    itemPriceElements,  \* getCheapItemsPercentage: texts of the .s-item__price elements
    priceTaskDone,      \* getCheapItemsPercentage: which map() tasks have resumed
    priceCount,
    cheapPriceCount,
    itemLinks,          \* browseItemDetails: what each .s-item__link leads to
    linkIndex,          \* browseItemDetails: position of the for..of loop
    totalImageCount,
    totalDescriptionLength,
    allowPostageCount,
    freePostageCount,
    acceptReturnsCount,
    sellerPaysReturnPostageCount,
    openItemPages,      \* indices of itemLinks whose itemPage is open (not closed)
    feedbackContainers, \* findDuplicateFeedbackPercentage: the "#feedback-cards tr" rows
    taskPc,             \* findDuplicateFeedbackPercentage: position of each map() task
    feedbackComments,   \* Map<string, string[]>: comment -> users that said it
    duplicateFeedbackCount,
    creationDateText,   \* getAccountAge: outcome of new Date(creationDate)
    rateInput,          \* rateSeller: its argument
    rateOutput          \* rateSeller: [score, flags], or "none" before the call

vars == <<pc, sellerStats, soldItemsText, itemPriceElements, priceTaskDone,
          priceCount, cheapPriceCount, itemLinks, linkIndex, totalImageCount,
          totalDescriptionLength, allowPostageCount, freePostageCount,
          acceptReturnsCount, sellerPaysReturnPostageCount, openItemPages,
          feedbackContainers, taskPc, feedbackComments, duplicateFeedbackCount,
          creationDateText, rateInput, rateOutput>>

(***************************************************************************)
(* JavaScript number arithmetic                                            *)
(***************************************************************************)
Abs(x) == IF x < 0 THEN -x ELSE x

Sign(x) == IF x < 0 THEN -1 ELSE IF x > 0 THEN 1 ELSE 0

RECURSIVE GCD(_, _)
GCD(a, b) == IF b = 0 THEN a ELSE GCD(b, a % b)

\* The fraction n/d in lowest terms; n/0 is NaN, Infinity or -Infinity.
Norm(n, d) ==
    IF d = 0 THEN <<Sign(n), 0>>
    ELSE LET g == GCD(Abs(n), Abs(d))
             s == IF d < 0 THEN -1 ELSE 1
         IN  <<(s * n) \div g, (s * d) \div g>>

Num(n) == <<n, 1>>

NaN == <<0, 0>>

IsNaN(x) == x = NaN

IsFinite(x) == x[2] # 0

\* a + b
Add(a, b) ==
    IF IsNaN(a) \/ IsNaN(b) THEN NaN
    ELSE IF ~IsFinite(a) /\ ~IsFinite(b) THEN (IF a = b THEN a ELSE NaN)
    ELSE IF ~IsFinite(a) THEN a
    ELSE IF ~IsFinite(b) THEN b
    ELSE LET g == GCD(a[2], b[2])
         IN  Norm(a[1] * (b[2] \div g) + b[1] * (a[2] \div g), (a[2] \div g) * b[2])

\* a * b
Mul(a, b) == Norm(a[1] * b[1], a[2] * b[2])

Neg(a) == <<-a[1], a[2]>>

\* a - b
Sub(a, b) == Add(a, Neg(b))

\* a / b: 0/0 is NaN, x/0 is +-Infinity
Div(a, b) == Norm(a[1] * b[2], a[2] * b[1])

\* a < b (false when either is NaN)
Lt(a, b) ==
    /\ ~IsNaN(a)
    /\ ~IsNaN(b)
    /\ IF ~IsFinite(a) /\ ~IsFinite(b) THEN a[1] < b[1]
       ELSE IF ~IsFinite(a) THEN a[1] < 0
       ELSE IF ~IsFinite(b) THEN b[1] > 0
       ELSE a[1] * b[2] < b[1] * a[2]

\* a > b
Gt(a, b) == Lt(b, a)

\* a <= b
Le(a, b) == ~IsNaN(a) /\ ~IsNaN(b) /\ ~Lt(b, a)

\* x || 0 on a number: NaN and 0 are falsy
OrZero(x) == IF IsNaN(x) \/ x = Num(0) THEN Num(0) ELSE x

\* Math.max(a, b), Math.min(a, b)
MathMax(a, b) == IF IsNaN(a) \/ IsNaN(b) THEN NaN ELSE IF Lt(a, b) THEN b ELSE a

MathMin(a, b) == IF IsNaN(a) \/ IsNaN(b) THEN NaN ELSE IF Lt(b, a) THEN b ELSE a

\* util/math clamp(value, min, max)
clamp(value, lo, hi) == MathMin(MathMax(value, lo), hi)

(***************************************************************************)
(* JavaScript strings: a text is a sequence of one-character strings       *)
(***************************************************************************)
\* The value of an optional chain that met a missing element.
Undefined == <<"undefined">>

Digits == {"0", "1", "2", "3", "4", "5", "6", "7", "8", "9"}

DigitValue(c) ==
    CASE c = "0" -> 0 [] c = "1" -> 1 [] c = "2" -> 2 [] c = "3" -> 3 [] c = "4" -> 4
      [] c = "5" -> 5 [] c = "6" -> 6 [] c = "7" -> 7 [] c = "8" -> 8 [] c = "9" -> 9

\* s.startsWith(prefix)
StartsWith(s, prefix) ==
    Len(s) >= Len(prefix) /\ SubSeq(s, 1, Len(prefix)) = prefix

\* s.slice(1)
SliceFrom1(s) == SubSeq(s, 2, Len(s))

\* s.slice(0, -1)
SliceDropLast(s) == SubSeq(s, 1, Len(s) - 1)

\* s.trim(): the texts of the model hold no whitespace but the space
RECURSIVE TrimStart(_)
TrimStart(s) == IF s # <<>> /\ Head(s) = " " THEN TrimStart(Tail(s)) ELSE s

RECURSIVE TrimEnd(_)
TrimEnd(s) == IF s # <<>> /\ s[Len(s)] = " " THEN TrimEnd(SliceDropLast(s)) ELSE s

Trim(s) == TrimEnd(TrimStart(s))

\* s.split(sep) for a one-character separator: always at least one part
RECURSIVE Split(_, _)
Split(s, sep) ==
    IF \A i \in 1..Len(s) : s[i] # sep THEN <<s>>
    ELSE LET first == CHOOSE i \in 1..Len(s) : s[i] = sep /\ \A j \in 1..(i - 1) : s[j] # sep
         IN  <<SubSeq(s, 1, first - 1)>> \o Split(SubSeq(s, first + 1, Len(s)), sep)

\* The length of the longest prefix of s made of digits.
RECURSIVE DigitRun(_)
DigitRun(s) == IF s # <<>> /\ Head(s) \in Digits THEN 1 + DigitRun(Tail(s)) ELSE 0

\* The value of a text of digits (0 for the empty text) and 10 ^ its length.
RECURSIVE DigitsValue(_)
DigitsValue(s) == IF s = <<>> THEN 0 ELSE 10 * DigitsValue(SliceDropLast(s)) + DigitValue(s[Len(s)])

RECURSIVE Pow10(_)
Pow10(n) == IF n = 0 THEN 1 ELSE 10 * Pow10(n - 1)

\* The longest prefix of s that is a decimal literal digits[.digits], as the pair
\* <<value, length>>; the value is NaN when the prefix holds no digit.  The texts of
\* the model hold no sign, exponent, hexadecimal prefix or "Infinity".
DecimalPrefix(s) ==
    LET intLen == DigitRun(s)
        rest == SubSeq(s, intLen + 1, Len(s))
        fracLen == IF rest # <<>> /\ Head(rest) = "." THEN DigitRun(Tail(rest)) ELSE 0
        hasDot == rest # <<>> /\ Head(rest) = "." /\ (intLen > 0 \/ fracLen > 0)
    IN  IF intLen = 0 /\ fracLen = 0 THEN <<NaN, 0>>
        ELSE <<Add(Num(DigitsValue(SubSeq(s, 1, intLen))),
                   Norm(DigitsValue(SubSeq(rest, 2, fracLen + 1)), Pow10(fracLen))),
               intLen + (IF hasDot THEN 1 + fracLen ELSE 0)>>

\* parseFloat(s): the number the text starts with, NaN when it starts with none
parseFloat(s) ==
    IF s = Undefined THEN NaN ELSE DecimalPrefix(TrimStart(s))[1]

\* Number(s): the number the whole text spells; "" is 0, undefined is NaN
Number(s) ==
    IF s = Undefined THEN NaN
    ELSE LET t == Trim(s)
             parsed == DecimalPrefix(t)
         IN  IF t = <<>> THEN Num(0)
             ELSE IF parsed[2] = Len(t) THEN parsed[1] ELSE NaN

(***************************************************************************)
(* sellerRater.ts                                                          *)
(***************************************************************************)
\* Object.entries(sellerStats) visits the fields in this order: the order of the
\* initializer of SellerScraper.sellerStats, then timeSinceCreation (added last).
StatKeys == <<"activeItems", "soldItems", "cheapItemsPercentage", "averageImageCount",
              "averageDescriptionLength", "acceptReturnsPercentage",
              "sellerPaysReturnsPercentage", "freePostagePercentage", "feedbackCount",
              "positiveFeedbackPercentage", "duplicateFeedbackPercentage",
              "timeSinceCreation">>

factorValues ==
    [activeItems                 |-> [weight |-> 1,   max |-> 60],
     soldItems                   |-> [weight |-> 8,   max |-> 1000],
     cheapItemsPercentage        |-> [weight |-> -3,  max |-> 100],
     averageImageCount           |-> [weight |-> 2,   max |-> 7],
     averageDescriptionLength    |-> [weight |-> 1,   max |-> 100],
     acceptReturnsPercentage     |-> [weight |-> 10,  max |-> 100],
     sellerPaysReturnsPercentage |-> [weight |-> 3,   max |-> 100],
     freePostagePercentage       |-> [weight |-> 3,   max |-> 100],
     feedbackCount               |-> [weight |-> 20,  max |-> 100],
     positiveFeedbackPercentage  |-> [weight |-> 10,  max |-> 100],
     duplicateFeedbackPercentage |-> [weight |-> -10, max |-> 100],
     timeSinceCreation           |-> [weight |-> 7,   max |-> 365 * 2]]

factorFlags ==
    [activeItems                 |-> "LowActiveItems",
     soldItems                   |-> "LowSoldItems",
     cheapItemsPercentage        |-> "HighCheapItems",
     averageImageCount           |-> "LowImages",
     averageDescriptionLength    |-> "ShortDescriptions",
     acceptReturnsPercentage     |-> "LowReturns",
     sellerPaysReturnsPercentage |-> "LowReturnPayment",
     freePostagePercentage       |-> "LowFreePostage",
     feedbackCount               |-> "LowFeedbackCount",
     positiveFeedbackPercentage  |-> "PoorFeedback",
     duplicateFeedbackPercentage |-> "HighDuplicateFeedback",
     timeSinceCreation           |-> "NewAccount"]

\* The [key, value] pairs of Object.entries: a key that was never set is not visited.
statsEntries(stats) == SelectSeq(StatKeys, LAMBDA k : k \in DOMAIN stats)

\* The value rated for a key: timeSinceCreation contributes its day count.
EntryValue(stats, key) ==
    IF key = "timeSinceCreation" THEN stats[key].days ELSE stats[key]

\* Mutant of PositiveFlagged: the boundary itself is flagged.
PositiveFlaggedInclusive(normalizedValueAsPercent) ==
    Le(normalizedValueAsPercent, Num(20))

PositiveFlagged(normalizedValueAsPercent) == Lt(normalizedValueAsPercent, Num(20))

NegativeFlagged(key, normalizedValueAsPercent) ==
    \/ key = "duplicateFeedbackPercentage" /\ Gt(normalizedValueAsPercent, Num(10))
    \/ Gt(normalizedValueAsPercent, Num(65))

\* One call of the forEach callback; acc holds the function's running locals.
RateEntry(acc, key, value) ==
    LET factorMeta == factorValues[key]
        normalizedValue == Div(value, Num(factorMeta.max))
        normalizedValueAsPercent == Mul(normalizedValue, Num(100))
    IN  IF factorMeta.weight > 0
        THEN LET weightedValue == clamp(Mul(normalizedValue, Num(factorMeta.weight)),
                                        Num(0), Num(factorMeta.weight))
             IN  [acc EXCEPT
                    !.totalPositiveWeightedScore = Add(@, weightedValue),
                    !.maximumPositiveScore = Add(@, Num(factorMeta.weight)),
                    !.flags = IF PositiveFlagged(normalizedValueAsPercent)
                              THEN Append(@, factorFlags[key]) ELSE @]
        ELSE LET weightedValue == clamp(Mul(normalizedValue, Num(factorMeta.weight)),
                                        Num(factorMeta.weight), Num(0))
             IN  [acc EXCEPT
                    !.totalNegativeWeightedScore = Add(@, weightedValue),
                    !.minimumNegativeScore = Add(@, Num(factorMeta.weight)),
                    !.flags = IF NegativeFlagged(key, normalizedValueAsPercent)
                              THEN Append(@, factorFlags[key]) ELSE @]

RECURSIVE RateEntries(_, _, _)
RateEntries(stats, keys, acc) ==
    IF keys = <<>> THEN acc
    ELSE RateEntries(stats, Tail(keys),
                     RateEntry(acc, Head(keys), EntryValue(stats, Head(keys))))

rateSeller(stats) ==
    LET acc == RateEntries(stats, statsEntries(stats),
                           [totalPositiveWeightedScore |-> Num(0),
                            totalNegativeWeightedScore |-> Num(0),
                            maximumPositiveScore |-> Num(0),
                            minimumNegativeScore |-> Num(0),
                            flags |-> <<>>])
        normalizedPositiveScore ==
            Mul(Div(acc.totalPositiveWeightedScore, acc.maximumPositiveScore), Num(100))
        normalizedNegativeScore ==
            Mul(Div(acc.totalNegativeWeightedScore, acc.minimumNegativeScore), Num(100))
    IN  [score |-> clamp(Sub(normalizedPositiveScore, normalizedNegativeScore),
                         Num(0), Num(100)),
         flags |-> acc.flags]

(***************************************************************************)
(* SellerScraper: construction                                             *)
(***************************************************************************)
\* The initializer of SellerScraper.sellerStats: timeSinceCreation is not set.
InitialStats ==
    [activeItems                 |-> Num(0),
     soldItems                   |-> Num(0),
     cheapItemsPercentage        |-> Num(0),
     averageImageCount           |-> Num(0),
     averageDescriptionLength    |-> Num(0),
     acceptReturnsPercentage     |-> Num(0),
     sellerPaysReturnsPercentage |-> Num(0),
     freePostagePercentage       |-> Num(0),
     feedbackCount               |-> Num(0),
     positiveFeedbackPercentage  |-> Num(0),
     duplicateFeedbackPercentage |-> Num(0)]

\* A text that has not been read from a page yet.
Unread == <<"unread">>

\* No function of the scraper has run: every local is unset.
LocalsUnset ==
    /\ soldItemsText = Unread
    /\ itemPriceElements = <<>>
    /\ priceTaskDone = {}
    /\ priceCount = 0
    /\ cheapPriceCount = 0
    /\ itemLinks = <<>>
    /\ linkIndex = 0
    /\ totalImageCount = Num(0)
    /\ totalDescriptionLength = Num(0)
    /\ allowPostageCount = 0
    /\ freePostageCount = 0
    /\ acceptReturnsCount = 0
    /\ sellerPaysReturnPostageCount = 0
    /\ openItemPages = {}
    /\ feedbackContainers = <<>>
    /\ taskPc = <<>>
    /\ feedbackComments = <<>>
    /\ duplicateFeedbackCount = 0
    /\ creationDateText = "unread"

scraperVars == <<sellerStats, soldItemsText, itemPriceElements, priceTaskDone,
                 priceCount, cheapPriceCount, itemLinks, linkIndex, totalImageCount,
                 totalDescriptionLength, allowPostageCount, freePostageCount,
                 acceptReturnsCount, sellerPaysReturnPostageCount, openItemPages,
                 feedbackContainers, taskPc, feedbackComments, duplicateFeedbackCount,
                 creationDateText>>

(***************************************************************************)
(* SellerScraper: getSoldItems, getCheapItemsPercentage, browseItemDetails *)
(***************************************************************************)
\* The criteria for an item to be classified as "cheap"
CHEAP_ITEM_CRITERIA == 10

\* Most price elements, item links and feedback rows a page holds beyond the first
\* (the honeypot).
MaxPrices == 2

MaxLinks == 2

\* array.shift(): removes the first element, if any
Shift(s) == IF s = <<>> THEN <<>> ELSE Tail(s)

\* Number(b) of a boolean
BoolNumber(b) == IF b THEN 1 ELSE 0

\* x + y where y may be undefined (then the sum is NaN)
AddValue(x, y) == Add(x, IF y = Undefined THEN NaN ELSE y)

\* The title attribute of the second statistic of the seller card: missing, a plain
\* count, or a count with a thousands separator.
SoldItemsTexts == {Undefined, <<"2", "5", "0", " ", "s", "o", "l", "d">>, <<"1", ",", "2", "3", "4", " ", "s", "o", "l", "d">>}

\* Texts of .s-item__price elements; the first character is the currency sign.
PriceTexts == {<<"$", "9", ".", "9", "9">>, <<"$", "1", "0">>, <<"$", "1", "0", ".", "5">>, <<"P", "O", "A">>}

TextFree == <<"F", "r", "e", "e">>

TextNo == <<"N", "o">>

TextSeller == <<"S", "e", "l", "l", "e", "r">>

\* What an item link leads to.  A failed navigation shows no page.
FailedPage ==
    [nav |-> "fail", images |-> 0, description |-> Undefined,
     postageText |-> Undefined, returnText |-> Undefined]

UnvisitedPage ==
    [nav |-> "unvisited", images |-> 0, description |-> Undefined,
     postageText |-> Undefined, returnText |-> Undefined]

\* description: the length of #ds_div's text, Undefined without the frame or element.
\* postageText: the shipping cost text, Undefined without the element.
\* returnText: the returns text, Undefined without the element.
LoadedPages ==
    [nav : {"ok"}, images : {2}, description : {Undefined, Num(120)},
     postageText : {Undefined, TextFree, <<"$", "3", ".", "1", "0">>},
     returnText : {<<"N", "o", " ", "r", "e", "t", "u", "r", "n", "s">>, <<"3", "0", " ", "d", "a", "y", "s", ".", " ", "S", "e", "l", "l", "e", "r", " ", "p", "a", "y", "s">>}]
    \cup
    [nav : {"ok"}, images : {5}, description : {Num(80)},
     postageText : {TextFree},
     returnText : {Undefined, <<"3", "0", " ", "d", "a", "y", "s", ".", " ", "B", "u", "y", "e", "r", " ", "p", "a", "y", "s">>, <<"A", "c", "c", "e", "p", "t", "e", "d">>}]

ItemPages == LoadedPages \cup {FailedPage}

getPostageDetails(itemPage) ==
    IF itemPage.postageText = Undefined
    THEN [allowsPostage |-> FALSE, isFree |-> FALSE]
    ELSE [allowsPostage |-> TRUE, isFree |-> StartsWith(itemPage.postageText, TextFree)]

\* threw: the call ended in a TypeError (split(".")[1] is undefined)
getReturnDetails(itemPage) ==
    LET returnInfo == itemPage.returnText
    IN  IF returnInfo # Undefined /\ StartsWith(returnInfo, TextNo)
        THEN [threw |-> FALSE, returnAllowed |-> FALSE, sellerPays |-> FALSE]
        ELSE IF returnInfo = Undefined
        THEN [threw |-> FALSE, returnAllowed |-> TRUE, sellerPays |-> FALSE]
        ELSE IF Len(Split(returnInfo, ".")) < 2
        THEN [threw |-> TRUE, returnAllowed |-> FALSE, sellerPays |-> FALSE]
        ELSE [threw |-> FALSE, returnAllowed |-> TRUE,
              sellerPays |-> StartsWith(Trim(Split(returnInfo, ".")[2]), TextSeller)]

getItemImageCount(itemPage) == Num(itemPage.images)

getItemDescriptionLength(itemPage) == itemPage.description

itemVars == <<itemLinks, linkIndex, totalImageCount, totalDescriptionLength,
              allowPostageCount, freePostageCount, acceptReturnsCount,
              sellerPaysReturnPostageCount, openItemPages>>

priceVars == <<itemPriceElements, priceTaskDone, priceCount, cheapPriceCount>>

feedbackVars == <<feedbackContainers, taskPc, feedbackComments, duplicateFeedbackCount>>

rateVars == <<rateInput, rateOutput>>

\* new SellerScraper(username), before scrapeSellerData has read anything.
Init ==
    /\ pc = "getSoldItems"
    /\ sellerStats = InitialStats
    /\ LocalsUnset
    /\ rateInput = InitialStats
    /\ rateOutput = "none"

GetSoldItems ==
    /\ pc = "getSoldItems"
    /\ \E text \in SoldItemsTexts :
          /\ soldItemsText' = text
          /\ sellerStats' = [sellerStats EXCEPT !.soldItems =
                Number(IF text = Undefined THEN Undefined ELSE Split(text, " ")[1])]
    /\ pc' = "getCheapItemsPercentage"
    /\ UNCHANGED <<priceVars, itemVars, feedbackVars, creationDateText, rateVars>>

\* getCheapItemsPercentage up to the first await of its tasks: the price elements
\* are collected, the honeypot removed and one task started per element.
CollectPrices ==
    /\ pc = "getCheapItemsPercentage"
    /\ \E n \in 0..(MaxPrices + 1) :
          \E elements \in [1..n -> PriceTexts] :
              itemPriceElements' = Shift(elements)
    /\ priceTaskDone' = {}
    /\ priceCount' = 0
    /\ cheapPriceCount' = 0
    /\ pc' = "priceTasks"
    /\ UNCHANGED <<sellerStats, soldItemsText, itemVars, feedbackVars,
                   creationDateText, rateVars>>

\* One task resumes after its await (tasks resume in any order) and runs to its end.
PriceTask(i) ==
    /\ pc = "priceTasks"
    /\ i \in (1..Len(itemPriceElements)) \ priceTaskDone
    /\ LET price == parseFloat(SliceFrom1(itemPriceElements[i]))
       IN  /\ priceCount' = priceCount + 1
           /\ cheapPriceCount' =
                cheapPriceCount + BoolNumber(Le(price, Num(CHEAP_ITEM_CRITERIA)))
    /\ priceTaskDone' = priceTaskDone \cup {i}
    /\ UNCHANGED <<pc, sellerStats, soldItemsText, itemPriceElements, itemVars,
                   feedbackVars, creationDateText, rateVars>>

\* After Promise.all(tasks): the percentage is stored.
FinishCheapItems ==
    /\ pc = "priceTasks"
    /\ priceTaskDone = 1..Len(itemPriceElements)
    /\ sellerStats' = [sellerStats EXCEPT !.cheapItemsPercentage =
          Mul(Div(Num(cheapPriceCount), Num(priceCount)), Num(100))]
    /\ itemPriceElements' = <<>>
    /\ priceTaskDone' = {}
    /\ pc' = "browseItemDetails"
    /\ UNCHANGED <<soldItemsText, priceCount, cheapPriceCount, itemVars, feedbackVars,
                   creationDateText, rateVars>>

\* browseItemDetails up to its loop: the links are collected, the honeypot removed
\* and activeItems set.  What a link leads to is learnt when it is visited.
CollectLinks ==
    /\ pc = "browseItemDetails"
    /\ \E n \in 0..(MaxLinks + 1) :
          LET links == Shift([i \in 1..n |-> UnvisitedPage])
          IN  /\ itemLinks' = links
              /\ sellerStats' = [sellerStats EXCEPT !.activeItems = Num(Len(links))]
    /\ linkIndex' = 1
    /\ totalImageCount' = Num(0)
    /\ totalDescriptionLength' = Num(0)
    /\ allowPostageCount' = 0
    /\ freePostageCount' = 0
    /\ acceptReturnsCount' = 0
    /\ sellerPaysReturnPostageCount' = 0
    /\ pc' = "itemLoop"
    /\ UNCHANGED <<soldItemsText, priceVars, openItemPages, feedbackVars,
                   creationDateText, rateVars>>

\* const itemPage = await this.browser.newPage()
OpenItemPage ==
    /\ pc = "itemLoop"
    /\ linkIndex <= Len(itemLinks)
    /\ openItemPages' = openItemPages \cup {linkIndex}
    /\ pc' = "goto"
    /\ UNCHANGED <<sellerStats, soldItemsText, priceVars, itemLinks, linkIndex,
                   totalImageCount, totalDescriptionLength, allowPostageCount,
                   freePostageCount, acceptReturnsCount, sellerPaysReturnPostageCount,
                   feedbackVars, creationDateText, rateVars>>

\* Mutant of GotoFails: the failed navigation ends the loop (break, not continue).
GotoFailsBreaks ==
    /\ pc = "goto"
    /\ itemLinks' = [itemLinks EXCEPT ![linkIndex] = FailedPage]
    /\ linkIndex' = Len(itemLinks) + 1
    /\ pc' = "itemLoop"
    /\ UNCHANGED <<sellerStats, soldItemsText, priceVars, totalImageCount,
                   totalDescriptionLength, allowPostageCount, freePostageCount,
                   acceptReturnsCount, sellerPaysReturnPostageCount, openItemPages,
                   feedbackVars, creationDateText, rateVars>>

\* itemPage.goto(link) throws: catch { continue }
GotoFails ==
    /\ pc = "goto"
    /\ itemLinks' = [itemLinks EXCEPT ![linkIndex] = FailedPage]
    /\ linkIndex' = linkIndex + 1
    /\ pc' = "itemLoop"
    /\ UNCHANGED <<sellerStats, soldItemsText, priceVars, totalImageCount,
                   totalDescriptionLength, allowPostageCount, freePostageCount,
                   acceptReturnsCount, sellerPaysReturnPostageCount, openItemPages,
                   feedbackVars, creationDateText, rateVars>>

\* itemPage.goto(link) succeeds and the rest of the loop body runs, to the close of
\* the page or to the TypeError of getReturnDetails, which nothing catches.
SampleItem ==
    /\ pc = "goto"
    /\ \E itemPage \in LoadedPages :
          LET postageDetails == getPostageDetails(itemPage)
              returnDetails == getReturnDetails(itemPage)
          IN  /\ itemLinks' = [itemLinks EXCEPT ![linkIndex] = itemPage]
              /\ totalImageCount' = Add(totalImageCount, getItemImageCount(itemPage))
              /\ totalDescriptionLength' =
                    AddValue(totalDescriptionLength, getItemDescriptionLength(itemPage))
              /\ allowPostageCount' =
                    allowPostageCount + BoolNumber(postageDetails.allowsPostage)
              /\ freePostageCount' = freePostageCount + BoolNumber(postageDetails.isFree)
              /\ IF returnDetails.threw
                 THEN /\ pc' = "failed"
                      /\ UNCHANGED <<acceptReturnsCount, sellerPaysReturnPostageCount,
                                     openItemPages, linkIndex>>
                 ELSE /\ acceptReturnsCount' =
                            acceptReturnsCount + BoolNumber(returnDetails.returnAllowed)
                      /\ sellerPaysReturnPostageCount' =
                            sellerPaysReturnPostageCount + BoolNumber(returnDetails.sellerPays)
                      /\ openItemPages' = openItemPages \ {linkIndex}
                      /\ linkIndex' = linkIndex + 1
                      /\ pc' = "itemLoop"
    /\ UNCHANGED <<sellerStats, soldItemsText, priceVars, feedbackVars,
                   creationDateText, rateVars>>

\* After the loop: the averages and percentages are stored.
FinishItemDetails ==
    /\ pc = "itemLoop"
    /\ linkIndex > Len(itemLinks)
    /\ sellerStats' = [sellerStats EXCEPT
          !.averageImageCount = OrZero(Div(totalImageCount, sellerStats.activeItems)),
          !.averageDescriptionLength =
              OrZero(Div(totalDescriptionLength, sellerStats.activeItems)),
          !.freePostagePercentage =
              OrZero(Mul(Div(Num(freePostageCount), Num(allowPostageCount)), Num(100))),
          !.acceptReturnsPercentage =
              OrZero(Mul(Div(Num(acceptReturnsCount), sellerStats.activeItems), Num(100))),
          !.sellerPaysReturnsPercentage =
              OrZero(Mul(Div(Num(sellerPaysReturnPostageCount), Num(acceptReturnsCount)),
                         Num(100)))]
    /\ pc' = "browseSellerFeedback"
    /\ UNCHANGED <<soldItemsText, priceVars, itemVars, feedbackVars,
                   creationDateText, rateVars>>

Next ==
    \/ GetSoldItems
    \/ CollectPrices
    \/ \E i \in 1..MaxPrices + 1 : PriceTask(i)
    \/ FinishCheapItems
    \/ CollectLinks
    \/ OpenItemPage
    \/ GotoFails
    \/ SampleItem
    \/ FinishItemDetails

\* scrapeSellerData from construction to the end of browseItemDetails.
Spec == Init /\ [][Next]_vars

(***************************************************************************)
(* Claims about getSoldItems, getCheapItemsPercentage and browseItemDetails *)
(* (checked under Spec)                                                    *)
(***************************************************************************)
\* Positions of a run that has left getCheapItemsPercentage / browseItemDetails.
AfterCheapItems == {"browseItemDetails", "itemLoop", "goto", "failed", "browseSellerFeedback"}

AfterItemDetails == {"browseSellerFeedback"}

PercentageKeys == {"cheapItemsPercentage", "acceptReturnsPercentage",
                   "sellerPaysReturnsPercentage", "freePostagePercentage",
                   "positiveFeedbackPercentage", "duplicateFeedbackPercentage"}

RECURSIVE SumNumbers(_)
SumNumbers(seq) == IF seq = <<>> THEN Num(0) ELSE Add(Head(seq), SumNumbers(Tail(seq)))

\* The listings among the first n links whose page loaded.
SampledPages(n) == SelectSeq(SubSeq(itemLinks, 1, n), LAMBDA page : page.nav = "ok")

\* C4: every percentage or average field computed from a zero denominator equals 0
\* after the run, never NaN: cheapItemsPercentage with zero priced listings,
\* averageImageCount, averageDescriptionLength and acceptReturnsPercentage with
\* activeItems = 0, freePostagePercentage with no listing allowing postage,
\* sellerPaysReturnsPercentage with no listing accepting returns and
\* duplicateFeedbackPercentage with zero feedback entries.
C4_ZeroDenominatorYieldsZero ==
    /\ (pc \in AfterCheapItems /\ priceCount = 0) =>
          sellerStats.cheapItemsPercentage = Num(0)
    /\ pc \in AfterItemDetails =>
          /\ sellerStats.activeItems = Num(0) =>
                /\ sellerStats.averageImageCount = Num(0)
                /\ sellerStats.averageDescriptionLength = Num(0)
                /\ sellerStats.acceptReturnsPercentage = Num(0)
          /\ allowPostageCount = 0 => sellerStats.freePostagePercentage = Num(0)
          /\ acceptReturnsCount = 0 => sellerStats.sellerPaysReturnsPercentage = Num(0)
    /\ (pc \in {"getAccountAge", "done"} /\ Len(feedbackContainers) = 0) =>
          sellerStats.duplicateFeedbackPercentage = Num(0)

\* C5: a listing whose navigation fails adds nothing to the image, description,
\* postage or returns sums; activeItems stays the link count after the honeypot was
\* removed; the loop goes on to every remaining listing, and a failed navigation
\* never cancels the run.
C5_FailedNavigationSkipped ==
    /\ pc \in {"itemLoop", "goto", "browseSellerFeedback"} =>
          LET visited == IF pc = "goto" THEN linkIndex - 1
                         ELSE IF linkIndex > Len(itemLinks) THEN Len(itemLinks)
                         ELSE linkIndex - 1
              sampled == SampledPages(visited)
              n == Len(sampled)
          IN  /\ sellerStats.activeItems = Num(Len(itemLinks))
              /\ \A i \in 1..Len(itemLinks) :
                    (itemLinks[i].nav = "unvisited") <=> (i >= linkIndex)
              /\ totalImageCount =
                    SumNumbers([i \in 1..n |-> getItemImageCount(sampled[i])])
              /\ totalDescriptionLength =
                    SumNumbers([i \in 1..n |->
                        AddValue(Num(0), getItemDescriptionLength(sampled[i]))])
              /\ allowPostageCount =
                    Cardinality({i \in 1..n : getPostageDetails(sampled[i]).allowsPostage})
              /\ freePostageCount =
                    Cardinality({i \in 1..n : getPostageDetails(sampled[i]).isFree})
              /\ acceptReturnsCount =
                    Cardinality({i \in 1..n : getReturnDetails(sampled[i]).returnAllowed})
              /\ sellerPaysReturnPostageCount =
                    Cardinality({i \in 1..n : getReturnDetails(sampled[i]).sellerPays})
              /\ pc = "browseSellerFeedback" => linkIndex = Len(itemLinks) + 1
    /\ pc = "failed" => itemLinks[linkIndex].nav = "ok"

\* The loop has ended after a listing whose navigation failed was followed by one
\* that was sampled.
C5_Witness ==
    /\ pc = "browseSellerFeedback"
    /\ \E i, j \in 1..Len(itemLinks) :
          /\ i < j
          /\ itemLinks[i].nav = "fail"
          /\ itemLinks[j].nav = "ok"
    /\ Gt(totalImageCount, Num(0))
    /\ allowPostageCount > 0
    /\ acceptReturnsCount > 0

\* C6: every percentage field of the statistics record lies in [0, 100]; the running
\* counters satisfy freePostageCount <= allowPostageCount and sellerPaysCount <=
\* acceptReturnsCount <= activeItems, and the duplicate count never exceeds the
\* number of considered feedback entries.
C6_PercentagesInRange ==
    /\ \A k \in PercentageKeys :
          Le(Num(0), sellerStats[k]) /\ Le(sellerStats[k], Num(100))
    /\ freePostageCount <= allowPostageCount
    /\ sellerPaysReturnPostageCount <= acceptReturnsCount
    /\ acceptReturnsCount <= Len(itemLinks)
    /\ duplicateFeedbackCount <= Len(feedbackContainers)

\* C8: when the sold-items label or a listing price is present but does not parse to
\* a number, the run fails at that point: it never continues with NaN stored in the
\* statistics record or used in a comparison.
C8_UnparsableTextFails ==
    /\ (/\ soldItemsText \notin {Unread, Undefined}
        /\ IsNaN(Number(Split(soldItemsText, " ")[1]))) =>
          /\ pc = "failed"
          /\ ~IsNaN(sellerStats.soldItems)
    /\ \A i \in priceTaskDone :
          IsNaN(parseFloat(SliceFrom1(itemPriceElements[i]))) => pc = "failed"

\* C9: a sampled listing without description frame or element counts as a
\* description of length 0: the running sum is the sum of the description lengths of
\* the other sampled listings, and averageDescriptionLength is that sum divided by
\* activeItems (0 when activeItems is 0).
C9_MissingDescriptionCountsZero ==
    LET sampled == SampledPages(Len(itemLinks))
        lengths == [i \in 1..Len(sampled) |->
                       IF sampled[i].description = Undefined THEN Num(0)
                       ELSE sampled[i].description]
    IN  /\ pc \in {"itemLoop", "goto", "browseSellerFeedback"} =>
              totalDescriptionLength = SumNumbers(lengths)
        /\ pc \in AfterItemDetails =>
              sellerStats.averageDescriptionLength =
                  OrZero(Div(SumNumbers(lengths), sellerStats.activeItems))

\* C10: every item page that is opened is closed before the next listing's page is
\* opened, on every exit path of the iteration: at most one item page is open at any
\* time and none is open between iterations or when the loop has ended.
C10_ItemPageClosed ==
    /\ Cardinality(openItemPages) <= 1
    /\ pc \in {"itemLoop", "browseSellerFeedback"} => openItemPages = {}

(***************************************************************************)
(* SellerScraper: browseSellerFeedback, findDuplicateFeedbackPercentage,   *)
(* getAccountAge; util/dates getTimeInfo                                   *)
(***************************************************************************)
\* Most feedback rows the page holds beyond the first.
MaxFeedback == 3

\* Don't count any duplicates if under this length
MIN_COMMENT_LENGTH == 15

\* Comment texts of 14, 15 and 17 characters, and the second one as the page pads it.
CommentShort == <<"G", "r", "e", "a", "t", " ", "s", "e", "l", "l", "e", "r", "!", "!">>

CommentA == <<"F", "a", "s", "t", " ", "s", "h", "i", "p", "p", "i", "n", "g", "!", "!">>

CommentAPadded == <<" ", "F", "a", "s", "t", " ", "s", "h", "i", "p", "p", "i", "n", "g", "!", "!", " ">>

CommentB == <<"I", "t", "e", "m", " ", "a", "s", " ", "d", "e", "s", "c", "r", "i", "b", "e", "d">>

\* A "#feedback-cards tr" row: the text of .card__comment (Undefined without the
\* element) and the text of the reviewer's span.
FeedbackRows ==
    {[comment |-> Undefined, username |-> "u1"],
     [comment |-> CommentShort, username |-> "u1"],
     [comment |-> CommentA, username |-> "u1"],
     [comment |-> CommentAPadded, username |-> "u2"],
     [comment |-> CommentA, username |-> "u3"],
     [comment |-> CommentB, username |-> "u1"],
     [comment |-> CommentB, username |-> "u2"]}

\* The text of ".userTopLine p": missing, a plain count, a count with a separator.
FeedbackCountTexts == {Undefined, <<"1", "2", "0">>, <<"1", ",", "2", "0", "4">>}

\* The text of ".positiveFeedbackText>span": missing, with a percentage, without one.
PositiveFeedbackTexts == {Undefined, <<"P", "o", "s", "i", "t", "i", "v", "e", " ", "9", "9", ".", "5", "%">>, <<"P", "o", "s", "i", "t", "i", "v", "e", " ", "n", "/", "a", "%">>}

\* Elapsed milliseconds between now and a creation date that parsed.
ElapsedTimes == {0, 90000000, 2000000000}

getFeedbackCount(text) == Number(text)

\* threw: words is undefined and words[...] is a TypeError
getPositiveFeedbackPercentage(text) ==
    IF text = Undefined THEN [threw |-> TRUE, value |-> NaN]
    ELSE LET words == Split(text, " ")
         IN  [threw |-> FALSE, value |-> Number(SliceDropLast(words[Len(words)]))]

\* el.textContent?.trim() of the comment element
CommentOf(fbContainer) ==
    IF fbContainer.comment = Undefined THEN Undefined ELSE Trim(fbContainer.comment)

\* The task returns before it reads the reviewer: no comment, or one too short.
CommentSkipped(comment) ==
    \/ comment = Undefined
    \/ comment = <<>>
    \/ Len(comment) < MIN_COMMENT_LENGTH

\* Mutant of Includes: only the reviewer recorded last is compared.
IncludesLast(storedComment, username) ==
    storedComment # <<>> /\ storedComment[Len(storedComment)] = username

\* storedComment.includes(username)
Includes(storedComment, username) ==
    \E i \in 1..Len(storedComment) : storedComment[i] = username

\* Mutant of DuplicateSeen: only the second reviewer of a comment is counted.
DuplicateSeenOnce(storedComment) == Len(storedComment) = 2

\* if (storedComment.length > 1) duplicateFeedbackCount++
DuplicateSeen(storedComment) == Len(storedComment) > 1

\* The synchronous tail of a task, from feedbackComments.get(comment) to its end,
\* as the pair of the map and the counter it leaves.
RecordComment(comments, count, comment, username) ==
    IF comment \notin DOMAIN comments
    THEN [comments |-> (comment :> <<username>>) @@ comments, count |-> count]
    ELSE IF Includes(comments[comment], username)
    THEN [comments |-> comments, count |-> count]
    ELSE LET storedComment == Append(comments[comment], username)
         IN  [comments |-> [comments EXCEPT ![comment] = storedComment],
              count |-> count + BoolNumber(DuplicateSeen(storedComment))]

\* getTimeInfo(time) of util/dates, on a whole number of milliseconds or NaN
getTimeInfo(time) ==
    IF IsNaN(time)
    THEN [seconds |-> NaN, minutes |-> NaN, hours |-> NaN, days |-> NaN,
          months |-> NaN, years |-> NaN]
    ELSE LET seconds == time[1] \div 1000
             minutes == seconds \div 60
             hours == minutes \div 60
             days == hours \div 24
             months == days \div 30
             years == months \div 12
         IN  [seconds |-> Num(seconds), minutes |-> Num(minutes), hours |-> Num(hours),
              days |-> Num(days), months |-> Num(months), years |-> Num(years)]

\* A run that reaches browseSellerFeedback: a seller with "250 sold", one priced
\* listing that is not cheap and no item link beyond the honeypot.
FeedbackInit ==
    /\ pc = "browseSellerFeedback"
    /\ sellerStats = [InitialStats EXCEPT !.soldItems = Num(250)]
    /\ soldItemsText = <<"2", "5", "0", " ", "s", "o", "l", "d">>
    /\ itemPriceElements = <<>>
    /\ priceTaskDone = {}
    /\ priceCount = 1
    /\ cheapPriceCount = 0
    /\ itemLinks = <<>>
    /\ linkIndex = 1
    /\ totalImageCount = Num(0)
    /\ totalDescriptionLength = Num(0)
    /\ allowPostageCount = 0
    /\ freePostageCount = 0
    /\ acceptReturnsCount = 0
    /\ sellerPaysReturnPostageCount = 0
    /\ openItemPages = {}
    /\ feedbackContainers = <<>>
    /\ taskPc = <<>>
    /\ feedbackComments = <<>>
    /\ duplicateFeedbackCount = 0
    /\ creationDateText = "unread"
    /\ rateInput = InitialStats
    /\ rateOutput = "none"

\* browseSellerFeedback up to the first await of the tasks of
\* findDuplicateFeedbackPercentage: the count and the positive percentage are stored
\* (or the latter throws), the rows are collected, the first one removed and one task
\* started per row.
BrowseSellerFeedback ==
    /\ pc = "browseSellerFeedback"
    /\ \E countText \in FeedbackCountTexts, positiveText \in PositiveFeedbackTexts :
          LET positive == getPositiveFeedbackPercentage(positiveText)
          IN  IF positive.threw
              THEN /\ sellerStats' = [sellerStats EXCEPT
                         !.feedbackCount = getFeedbackCount(countText)]
                   /\ pc' = "failed"
                   /\ UNCHANGED feedbackVars
              ELSE /\ sellerStats' = [sellerStats EXCEPT
                         !.feedbackCount = getFeedbackCount(countText),
                         !.positiveFeedbackPercentage = positive.value]
                   /\ \E n \in 0..(MaxFeedback + 1) :
                         \E rows \in [1..n -> FeedbackRows] :
                             /\ feedbackContainers' = Shift(rows)
                             /\ taskPc' = [i \in 1..Len(Shift(rows)) |-> "comment"]
                   /\ feedbackComments' = <<>>
                   /\ duplicateFeedbackCount' = 0
                   /\ pc' = "feedbackTasks"
    /\ UNCHANGED <<soldItemsText, priceVars, itemVars, creationDateText, rateVars>>

\* A task resumes with the comment text: it returns, or goes on to await the reviewer.
ReadComment(i) ==
    /\ pc = "feedbackTasks"
    /\ i \in 1..Len(feedbackContainers)
    /\ taskPc[i] = "comment"
    /\ taskPc' = [taskPc EXCEPT ![i] =
          IF CommentSkipped(CommentOf(feedbackContainers[i])) THEN "done" ELSE "username"]
    /\ UNCHANGED <<pc, sellerStats, soldItemsText, priceVars, itemVars,
                   feedbackContainers, feedbackComments, duplicateFeedbackCount,
                   creationDateText, rateVars>>

\* A task resumes with the reviewer and runs to its end without another await.
RecordUsername(i) ==
    /\ pc = "feedbackTasks"
    /\ i \in 1..Len(feedbackContainers)
    /\ taskPc[i] = "username"
    /\ LET recorded == RecordComment(feedbackComments, duplicateFeedbackCount,
                                     CommentOf(feedbackContainers[i]),
                                     feedbackContainers[i].username)
       IN  /\ feedbackComments' = recorded.comments
           /\ duplicateFeedbackCount' = recorded.count
    /\ taskPc' = [taskPc EXCEPT ![i] = "done"]
    /\ UNCHANGED <<pc, sellerStats, soldItemsText, priceVars, itemVars,
                   feedbackContainers, creationDateText, rateVars>>

\* After Promise.all(tasks): the percentage is returned and stored.
FinishFeedback ==
    /\ pc = "feedbackTasks"
    /\ \A i \in 1..Len(feedbackContainers) : taskPc[i] = "done"
    /\ sellerStats' = [sellerStats EXCEPT !.duplicateFeedbackPercentage =
          Mul(Div(Num(duplicateFeedbackCount), Num(Len(feedbackContainers))), Num(100))]
    /\ pc' = "getAccountAge"
    /\ UNCHANGED <<soldItemsText, priceVars, itemVars, feedbackVars,
                   creationDateText, rateVars>>

\* getAccountAge: new Date(creationDate) is an invalid date when the label is
\* missing or does not parse, and its getTime() is then NaN.
GetAccountAge ==
    /\ pc = "getAccountAge"
    /\ \E date \in {"missing", "unparsable", "valid"} :
          /\ creationDateText' = date
          /\ \E elapsed \in ElapsedTimes :
                LET timeDifference == IF date = "valid" THEN Num(elapsed) ELSE NaN
                IN  sellerStats' =
                        ("timeSinceCreation" :> getTimeInfo(timeDifference)) @@ sellerStats
    /\ pc' = "done"
    /\ UNCHANGED <<soldItemsText, priceVars, itemVars, feedbackVars, rateVars>>

FeedbackNext ==
    \/ BrowseSellerFeedback
    \/ \E i \in 1..MaxFeedback + 1 : ReadComment(i)
    \/ \E i \in 1..MaxFeedback + 1 : RecordUsername(i)
    \/ FinishFeedback
    \/ GetAccountAge

\* scrapeSellerData from browseSellerFeedback to its end.
SpecFeedback == FeedbackInit /\ [][FeedbackNext]_vars

(***************************************************************************)
(* Claims about findDuplicateFeedbackPercentage (checked under SpecFeedback) *)
(***************************************************************************)
\* The rows whose task has run to its end and whose comment is long enough to count.
Recorded ==
    {i \in 1..Len(feedbackContainers) :
        taskPc[i] = "done" /\ ~CommentSkipped(CommentOf(feedbackContainers[i]))}

\* Among the rows I: the number of (comment, reviewer) pairs less the number of
\* comments, that is, for each comment, its distinct reviewers beyond the first.
FurtherReviewers(I) ==
    Cardinality({<<CommentOf(feedbackContainers[i]), feedbackContainers[i].username>> :
                    i \in I})
    - Cardinality({CommentOf(feedbackContainers[i]) : i \in I})

UsersOf(storedComment) == {storedComment[i] : i \in 1..Len(storedComment)}

RECURSIVE SequentialScan(_)
SequentialScan(n) ==
    IF n = 0 THEN [comments |-> <<>>, count |-> 0]
    ELSE LET before == SequentialScan(n - 1)
             comment == CommentOf(feedbackContainers[n])
         IN  IF CommentSkipped(comment) THEN before
             ELSE RecordComment(before.comments, before.count, comment,
                                feedbackContainers[n].username)

\* C3: for fixed feedback rows, the duplicate count the concurrent tasks leave is the
\* same under every interleaving of the tasks at their awaits: it is the count, and
\* the reviewers recorded per comment are the reviewers, that a sequential scan of
\* the rows leaves; no update is lost and none is counted twice.
C3_InterleavingIndependent ==
    pc \in {"getAccountAge", "done"} =>
        LET sequential == SequentialScan(Len(feedbackContainers))
        IN  /\ duplicateFeedbackCount = sequential.count
            /\ DOMAIN feedbackComments = DOMAIN sequential.comments
            /\ \A c \in DOMAIN feedbackComments :
                  /\ UsersOf(feedbackComments[c]) = UsersOf(sequential.comments[c])
                  /\ Len(feedbackComments[c]) = Len(sequential.comments[c])
            /\ sellerStats.duplicateFeedbackPercentage =
                  Mul(Div(Num(sequential.count), Num(Len(feedbackContainers))), Num(100))

\* The tasks have all ended, a duplicate has been counted, and the task of a later
\* row recorded its reviewer before the task of an earlier row with the same comment.
C3_Witness ==
    /\ pc = "getAccountAge"
    /\ duplicateFeedbackCount >= 1
    /\ \E i, j \in 1..Len(feedbackContainers) :
          LET c == CommentOf(feedbackContainers[i])
          IN  /\ i < j
              /\ ~CommentSkipped(c)
              /\ CommentOf(feedbackContainers[j]) = c
              /\ feedbackContainers[i].username # feedbackContainers[j].username
              /\ \A k \in 1..(j - 1) :
                    CommentOf(feedbackContainers[k]) = c =>
                        feedbackContainers[k].username # feedbackContainers[j].username
              /\ feedbackComments[c][1] = feedbackContainers[j].username

(***************************************************************************)
(* rateSeller as a pure function: the arguments it is applied to           *)
(***************************************************************************)
\* How many fields of a record differ from the baseline it is built from.
MaxVaried == 1

KeySet == {StatKeys[i] : i \in 1..Len(StatKeys)}

\* A field's value as a fraction of its ceiling: NaN, negative, 0, below, at and above
\* the 10%, 20% and 65% thresholds, at the ceiling and beyond it.
Ratios == {NaN, Norm(-1, 2), Num(0), Norm(1, 10), Norm(1, 5), Norm(13, 20),
           Norm(33, 50), Num(1), Num(2)}

\* Every field at its ceiling and no negative factor: the best record.
BestStats ==
    [k \in KeySet |-> IF factorValues[k].weight > 0 THEN Num(factorValues[k].max)
                      ELSE Num(0)]

\* Every field at zero except the duplicate feedback: the worst record.
WorstStats ==
    [k \in KeySet |-> IF k = "duplicateFeedbackPercentage" THEN Num(100) ELSE Num(0)]

\* Every field at half its ceiling.
MidStats == [k \in KeySet |-> Norm(factorValues[k].max, 2)]

BuildStats(base, override, withTime) ==
    [k \in (IF withTime THEN KeySet ELSE KeySet \ {"timeSinceCreation"}) |->
        LET v == IF k \in DOMAIN override
                 THEN Mul(override[k], Num(factorValues[k].max))
                 ELSE base[k]
        IN  IF k = "timeSinceCreation" THEN [days |-> v] ELSE v]

Overrides ==
    UNION {[S -> Ratios] : S \in {T \in SUBSET KeySet : Cardinality(T) <= MaxVaried}}

RateInit ==
    /\ pc = "rateSeller"
    /\ sellerStats = InitialStats
    /\ LocalsUnset
    /\ \E base \in {BestStats, WorstStats, MidStats}, override \in Overrides, withTime \in BOOLEAN :
          rateInput = BuildStats(base, override, withTime)
    /\ rateOutput = "none"

\* The call rateSeller(scraper.sellerStats) of the /rate-seller route.
RateSeller ==
    /\ pc = "rateSeller"
    /\ rateOutput' = rateSeller(rateInput)
    /\ pc' = "rated"
    /\ UNCHANGED <<scraperVars, rateInput>>

RateNext == RateSeller

SpecRate == RateInit /\ [][RateNext]_vars

(***************************************************************************)
(* Claims about rateSeller (checked under SpecRate)                        *)
(***************************************************************************)
Flagged(key) ==
    \E i \in 1..Len(rateOutput.flags) : rateOutput.flags[i] = factorFlags[key]

\* C1: for every statistics record, with timeSinceCreation present or absent, the
\* score rateSeller returns is a number in the closed interval [0, 100].
C1_ScoreInRange ==
    pc = "rated" =>
        /\ Le(Num(0), rateOutput.score)
        /\ Le(rateOutput.score, Num(100))

====
